---- MODULE Spec2Model ----
(***************************************************************************)
(* A model of the go-crypto keybase (keys/keybase.go) and of the HD        *)
(* derivation it calls (keys/hd/hdpath.go).                                *)
(*                                                                         *)
(* Strings are sequences of one-character strings, so that Split, Atoi,    *)
(* Sprintf and the byte-wise key order of the store are computed and not   *)
(* assumed.  Byte arrays are sequences of digits in base ByteBase; the     *)
(* widths of the source (32-byte keys, uint32 indices, the order of        *)
(* secp256k1) are scaled down to widths TLC can enumerate, keeping their   *)
(* relations: an index has IndexLen digits and its top bit is the hardened *)
(* flag, a key has KeyLen digits, and CurveN is a prime just below the     *)
(* largest key.                                                            *)
(***************************************************************************)
EXTENDS Integers, Sequences, FiniteSets, TLC

(***************************************************************************)
(* Bounds of the model.                                                    *)
(***************************************************************************)
\* Derive is called with NewFundraiserParams(account, FALSE, 0), account in 0..MaxAccount
MaxAccount == 0

(***************************************************************************)
(* Scaled program constants.                                               *)
(***************************************************************************)
\* a byte is a digit in 0..ByteBase-1
ByteBase == 4
\* [32]byte
KeyLen == 2
\* uint32: IndexLen bytes, 2^8 values in the scaled widths
IndexLen == 4
\* 0x80000000, the top bit of an index
HardenedBit == 128
\* btcec.S256().N, a prime below ByteBase^KeyLen
CurveN == 13
\* the field of the scaled curve group: CurveG has order CurveN modulo CurveP
CurveP == 53
CurveG == 16
\* the largest int strconv.Atoi returns without a range error
MaxInt == 32767

Uint32Mod == HardenedBit * 2

(***************************************************************************)
(* Strings.                                                                *)
(***************************************************************************)
Digits == <<"0", "1", "2", "3", "4", "5", "6", "7", "8", "9">>

IsDigit(c) == \E i \in 1..10 : Digits[i] = c

DigitVal(c) == (CHOOSE i \in 1..10 : Digits[i] = c) - 1

\* the byte value of the characters the model uses (ASCII)
Ord(c) ==
    CASE c = " " -> 32
      [] c = "'" -> 39
      [] c = "-" -> 45
      [] c = "." -> 46
      [] c = "/" -> 47
      [] IsDigit(c) -> 48 + DigitVal(c)
      [] c = "a" -> 97
      [] c = "b" -> 98
      [] c = "f" -> 102
      [] c = "i" -> 105
      [] c = "m" -> 109
      [] c = "n" -> 110
      [] c = "o" -> 111

\* bytes.Compare(a, b) < 0: the order of the store's iterator
RECURSIVE BytesLess(_, _)
BytesLess(a, b) ==
    IF Len(b) = 0 THEN FALSE
    ELSE IF Len(a) = 0 THEN TRUE
    ELSE IF Ord(Head(a)) # Ord(Head(b)) THEN Ord(Head(a)) < Ord(Head(b))
    ELSE BytesLess(Tail(a), Tail(b))

\* strings.Split(s, sep) for a one-character separator
RECURSIVE SplitFrom(_, _, _)
SplitFrom(s, sep, cur) ==
    IF Len(s) = 0 THEN <<cur>>
    ELSE IF Head(s) = sep THEN <<cur>> \o SplitFrom(Tail(s), sep, <<>>)
    ELSE SplitFrom(Tail(s), sep, Append(cur, Head(s)))

Split(s, sep) == SplitFrom(s, sep, <<>>)

\* the value of a digit string, or -1 when it exceeds MaxInt
RECURSIVE DigitsValue(_, _)
DigitsValue(s, acc) ==
    IF Len(s) = 0 THEN acc
    ELSE IF acc * 10 + DigitVal(Head(s)) > MaxInt THEN -1
    ELSE DigitsValue(Tail(s), acc * 10 + DigitVal(Head(s)))

\* strconv.Atoi: an optional sign, then one or more digits, within the int range
Atoi(s) ==
    LET signed == Len(s) > 0 /\ Head(s) \in {"+", "-"}
        body   == IF signed THEN Tail(s) ELSE s
        wellFormed == Len(body) > 0 /\ \A i \in 1..Len(body) : IsDigit(body[i])
        v == IF wellFormed THEN DigitsValue(body, 0) ELSE -1
    IN  IF ~wellFormed \/ v < 0 THEN [err |-> TRUE, val |-> 0]
        ELSE [err |-> FALSE, val |-> IF signed /\ Head(s) = "-" THEN -v ELSE v]

\* fmt.Sprintf("%d", n) for n >= 0
RECURSIVE Itoa(_)
Itoa(n) == IF n < 10 THEN <<Digits[n + 1]>> ELSE Append(Itoa(n \div 10), Digits[(n % 10) + 1])

(***************************************************************************)
(* Byte arrays and big integers (math/big).                                *)
(***************************************************************************)
RECURSIVE Pow(_, _)
Pow(b, e) == IF e = 0 THEN 1 ELSE b * Pow(b, e - 1)

\* b^e modulo m
RECURSIVE PowMod(_, _, _)
PowMod(b, e, m) == IF e = 0 THEN 1 % m ELSE (b * PowMod(b, e - 1, m)) % m

\* big.Int.SetBytes: the big-endian value of a byte sequence
RECURSIVE SetBytes(_)
SetBytes(b) == IF Len(b) = 0 THEN 0 ELSE SetBytes(SubSeq(b, 1, Len(b) - 1)) * ByteBase + b[Len(b)]

\* big.Int.Bytes: the big-endian bytes without leading zeros (empty for 0)
RECURSIVE Bytes(_)
Bytes(n) == IF n = 0 THEN <<>> ELSE Append(Bytes(n \div ByteBase), n % ByteBase)

\* a value written big-endian into exactly len bytes (binary.BigEndian.PutUint32, copy)
FixedBytes(n, len) == [i \in 1..len |-> (n \div Pow(ByteBase, len - i)) % ByteBase]

(***************************************************************************)
(* keys/hd/hdpath.go                                                       *)
(***************************************************************************)
uint32ToBytes(i) == FixedBytes(i, IndexLen)

\* HMAC-SHA512 is a hash of (key, data) onto 2*KeyLen bytes; the model mixes
\* every byte of the key and of the data, in order, into the digest
RECURSIVE Mix(_, _)
Mix(h, bs) == IF Len(bs) = 0 THEN h ELSE Mix((h * 13 + Head(bs) + 1) % 251, Tail(bs))

i64(key, data) ==
    LET I == FixedBytes(Mix(Mix(Mix(1, key), <<ByteBase>>), data), 2 * KeyLen)
    IN  [IL |-> SubSeq(I, 1, KeyLen), IR |-> SubSeq(I, KeyLen + 1, 2 * KeyLen)]

\* []byte("Bitcoin seed")
masterSecret == <<1, 0, 2, 3>>

ComputeMastersFromSeed(seed) ==
    LET I == i64(masterSecret, seed) IN [secret |-> I.IL, chainCode |-> I.IR]

\* addScalars with the bytes of the sum copied to the front of the result
addScalarsLeftAligned(a, b) ==
    LET x == Bytes((SetBytes(a) + SetBytes(b)) % CurveN)
    IN  [i \in 1..KeyLen |-> IF i <= Len(x) THEN x[i] ELSE 0]

\* modular big endian addition
addScalars(a, b) ==
    LET x == Bytes((SetBytes(a) + SetBytes(b)) % CurveN)
    IN  [i \in 1..KeyLen |-> IF i <= KeyLen - Len(x) THEN 0 ELSE x[i - (KeyLen - Len(x))]]

\* crypto.PrivKeySecp256k1(priv).PubKey(): the compressed point priv*G, here the
\* power CurveG^priv in the group of order CurveN modulo CurveP
PubKeyOf(priv) == FixedBytes(PowMod(CurveG, SetBytes(priv) % CurveN, CurveP), KeyLen + 1)

\* index | 0x80000000 on a uint32
SetHardenedBit(index) == IF index >= HardenedBit THEN index ELSE index + HardenedBit

\* DerivePrivateKey with the halves of the HMAC taken the other way round
DerivePrivateKeySwappedHalves(privKeyBytes, chainCode, index, prime) ==
    LET idx  == IF prime THEN SetHardenedBit(index) ELSE index
        data == (IF prime THEN <<0>> \o privKeyBytes ELSE PubKeyOf(privKeyBytes))
                    \o uint32ToBytes(idx)
        I    == i64(chainCode, data)
    IN  [key |-> addScalars(privKeyBytes, I.IR), chainCode |-> I.IL]

DerivePrivateKey(privKeyBytes, chainCode, index, prime) ==
    LET idx  == IF prime THEN SetHardenedBit(index) ELSE index
        data == (IF prime THEN <<0>> \o privKeyBytes ELSE PubKeyOf(privKeyBytes))
                    \o uint32ToBytes(idx)
        I    == i64(chainCode, data)
    IN  [key |-> addScalars(privKeyBytes, I.IL), chainCode |-> I.IR]

\* the head of the loop body of DerivePrivateKeyForPath: the prime mark, Atoi
\* and uint32(i) of one part; a part that is empty (slice bounds out of
\* range), not a number or negative makes the function panic
ParsePart(part) ==
    LET prime == Len(part) > 0 /\ part[Len(part)] = "'"
        num   == IF prime THEN SubSeq(part, 1, Len(part) - 1) ELSE part
        i     == Atoi(num)
    IN  [err |-> Len(part) = 0 \/ i.err \/ i.val < 0,
         index |-> i.val % Uint32Mod, prime |-> prime]

\* the loop of DerivePrivateKeyForPath over the parts that are left
RECURSIVE DeriveParts(_, _, _)
DeriveParts(data, chainCode, parts) ==
    IF Len(parts) = 0 THEN [err |-> "", key |-> data]
    ELSE LET p == ParsePart(Head(parts))
         IN  IF p.err
             THEN [err |-> "panic", key |-> data]
             ELSE LET d == DerivePrivateKey(data, chainCode, p.index, p.prime)
                  IN  DeriveParts(d.key, d.chainCode, Tail(parts))

DerivePrivateKeyForPath(privKeyBytes, chainCode, path) ==
    DeriveParts(privKeyBytes, chainCode, Split(path, "/"))

BIP44Prefix == <<"m", "/", "4", "4", "'", "/", "1", "1", "8", "'", "/">>

FullFundraiserPath == BIP44Prefix \o <<"0", "'", "/", "0", "/", "0">>

NewParams(purpose, coinType, account, change, addressIdx) ==
    [purpose |-> purpose, coinType |-> coinType, account |-> account,
     change |-> change, addressIdx |-> addressIdx]

NewFundraiserParams(account, change, addressIdx) ==
    [purpose |-> 44, coinType |-> 118, account |-> account,
     change |-> change, addressIdx |-> addressIdx]

\* BIP44Params.String with the change rendered as a hardened part
ParamsStringHardenedChange(p) ==
    Itoa(p.purpose) \o <<"'", "/">> \o Itoa(p.coinType) \o <<"'", "/">>
        \o Itoa(p.account) \o <<"'", "/">>
        \o (IF p.change THEN <<"1", "'">> ELSE <<"0", "'">>) \o <<"/">> \o Itoa(p.addressIdx)

\* BIP44Params.String: Sprintf("%d'/%d'/%d'/%s/%d", ...)
ParamsString(p) ==
    Itoa(p.purpose) \o <<"'", "/">> \o Itoa(p.coinType) \o <<"'", "/">>
        \o Itoa(p.account) \o <<"'", "/">>
        \o (IF p.change THEN <<"1">> ELSE <<"0">>) \o <<"/">> \o Itoa(p.addressIdx)

(***************************************************************************)
(* keys/bip39/wordcodec.go.  A mnemonic is a sequence of word indices; its *)
(* last word carries the checksum of the others.                           *)
(***************************************************************************)
FundRaiser == 12
FreshKey == 24

RECURSIVE SumSeq(_)
SumSeq(s) == IF Len(s) = 0 THEN 0 ELSE Head(s) + SumSeq(Tail(s))

\* bip39.NewMnemonic(entropy): the words of the entropy followed by the checksum
MnemonicOf(entropy, len) ==
    [i \in 1..len |-> IF i = 1 THEN entropy ELSE IF i < len THEN 0 ELSE entropy % ByteBase]

\* NewMnemonic(len) with the entropy the system's random source returned
NewMnemonic(len, entropy) == MnemonicOf(entropy, len)

ChecksumOk(mne) ==
    /\ Len(mne) \in {12, 15, 18, 21, 24}
    /\ mne[Len(mne)] = SumSeq(SubSeq(mne, 1, Len(mne) - 1)) % ByteBase

\* bip39.NewSeed(mne, ""): a hash of the sentence, no validation
MnemonicToSeed(mne) == FixedBytes(Mix(Len(mne), mne), 2 * KeyLen)

MnemonicToSeedWithErrChecking(mne) ==
    IF ChecksumOk(mne) THEN [err |-> "", seed |-> MnemonicToSeed(mne)]
    ELSE [err |-> "ChecksumInvalid", seed |-> <<>>]

(***************************************************************************)
(* The arguments the client calls the keybase with.                        *)
(***************************************************************************)
\* the names the client uses: one is a prefix of the other
Names == {<<"a">>, <<"a", "-", "b">>}

Passphrases == {"", "p1", "p2"}

Languages == {"English", "Japanese"}

Algos == {"secp256k1", "ed25519"}

Msgs == {"d1", "d2"}

\* the entropy bip39.NewEntropy may return
Entropies == {1, 2}

\* a valid fundraiser sentence, a valid 24-word sentence, a sentence with a
\* corrupt checksum and a sentence of 11 words
Mnemonics ==
    { MnemonicOf(1, 12), MnemonicOf(2, 24),
      [MnemonicOf(1, 12) EXCEPT ![2] = 1], MnemonicOf(1, 11) }

\* the names the client looks up: the names it stores records under and names
\* that are close to one of them (the empty name, a space before or after it,
\* a suffix, another case)
LookupNames ==
    Names \cup { <<>>, <<" ", "a">>, <<"a", " ">>, <<"A">>,
                 <<"a", ".", "n", "o", "t", "r", "e", "a", "l">> }

DeriveParams == { NewFundraiserParams(account, FALSE, 0) : account \in 0..MaxAccount }

(***************************************************************************)
(* The codec and the armor layer.  A serialized Info is the sequence of    *)
(* its fields; nil and undecodable bytes are the empty sequence.  An armor *)
(* block carries its type header and its payload.  The armor of a private  *)
(* key is modelled by what decrypting it depends on, the key and the       *)
(* passphrase; the salt it is made with is not modelled.                   *)
(***************************************************************************)
newInfo(name, pub, privArmor) == [Name |-> name, PubKey |-> pub, PrivKeyArmor |-> privArmor]

\* Info.bytes: cdc.MarshalBinaryBare
InfoBytes(info) == <<info.Name, info.PubKey, info.PrivKeyArmor>>

\* cdc.UnmarshalBinaryBare: fails on nil or empty bytes
readInfo(bz) ==
    IF Len(bz) # 3 THEN [err |-> "RecordNotFound", info |-> newInfo(<<>>, <<>>, <<>>)]
    ELSE [err |-> "", info |-> newInfo(bz[1], bz[2], bz[3])]

\* the type prefix the codec puts before the bytes of a secp256k1 public key
PubKeyPrefix == 3

\* PubKey.Bytes
PubKeyBytes(pub) == <<PubKeyPrefix>> \o pub

\* crypto.PubKeyFromBytes
PubKeyFromBytes(bz) ==
    IF Len(bz) = KeyLen + 2 /\ bz[1] = PubKeyPrefix THEN [err |-> "", pub |-> Tail(bz)]
    ELSE [err |-> "MalformedArmor", pub |-> <<>>]

\* encryptArmorPrivKey: the armor is never the empty string
encryptArmorPrivKey(priv, passphrase) == <<[passphrase |-> passphrase, priv |-> priv]>>

\* unarmorDecryptPrivKey: the empty string is no armor, a wrong passphrase fails
unarmorDecryptPrivKey(armorStr, passphrase) ==
    IF Len(armorStr) = 0 \/ armorStr[1].passphrase # passphrase
    THEN [err |-> "DecryptionFailed", priv |-> <<>>]
    ELSE [err |-> "", priv |-> armorStr[1].priv]

armorInfoBytes(bz) == [blockType |-> "TENDERMINT KEY INFO", data |-> bz]

armorPubKeyBytes(bz) == [blockType |-> "TENDERMINT PUBLIC KEY", data |-> bz]

unarmorInfoBytes(armorStr) ==
    IF armorStr.blockType = "TENDERMINT KEY INFO" THEN [err |-> "", bz |-> armorStr.data]
    ELSE [err |-> "MalformedArmor", bz |-> <<>>]

unarmorPubKeyBytes(armorStr) ==
    IF armorStr.blockType = "TENDERMINT PUBLIC KEY" THEN [err |-> "", bz |-> armorStr.data]
    ELSE [err |-> "MalformedArmor", bz |-> <<>>]

\* priv.Sign(msg) and pub.VerifyBytes(msg, sig)
SignBytes(priv, msg) == [signer |-> PubKeyOf(priv), msg |-> msg]

VerifyBytes(pub, msg, sig) == sig.signer = pub /\ sig.msg = msg

\* PubKey.Address: a hash of the bytes of the key
PubKeyAddress(pub) == Bytes(Mix(1, PubKeyBytes(pub)))

\* Info.Address
Address(info) == PubKeyAddress(info.PubKey)

(***************************************************************************)
(* The store (dbm.DB): a map from the keys that are set to their bytes.    *)
(***************************************************************************)
\* db.Get: nil for a key that is not set
dbGet(kb, key) == IF key \in DOMAIN kb THEN kb[key] ELSE <<>>

\* db.Set and db.SetSync, as the next Get sees them
dbSet(kb, key, bz) == [k \in DOMAIN kb \cup {key} |-> IF k = key THEN bz ELSE kb[k]]

\* db.DeleteSync, as the next Get sees it
dbDelete(kb, key) == [k \in DOMAIN kb \ {key} |-> kb[k]]

\* db.Iterator(nil, nil): the keys in ascending byte order
RECURSIVE SortedKeys(_)
SortedKeys(keys) ==
    IF keys = {} THEN <<>>
    ELSE LET first == CHOOSE k \in keys : \A o \in keys \ {k} : BytesLess(k, o)
         IN  <<first>> \o SortedKeys(keys \ {first})

(***************************************************************************)
(* keys/keybase.go.  Every operation is a function of the store and of its *)
(* arguments (and of the entropy it draws) onto the error it returns,   *)
(* the values it returns and the store it leaves.                          *)
(***************************************************************************)
infoKey(name) == name \o <<".", "i", "n", "f", "o">>

\* what a call gives back: its error, its results, the store it leaves, and the
\* keys it wrote or deleted with SetSync and DeleteSync (synced) and with Set
\* (unsynced)
Result(err, out, kb) ==
    [err |-> err, out |-> out, db |-> kb, synced |-> {}, unsynced |-> {}]

\* the result of a call that wrote or deleted a key, with or without Sync
Wrote(r, key, sync) ==
    [r EXCEPT !.synced = IF sync THEN {key} ELSE {},
              !.unsynced = IF sync THEN {} ELSE {key}]

writePubKey(kb, pub, name) ==
    LET info == newInfo(name, pub, <<>>)
    IN  Wrote(Result("", <<info>>, dbSet(kb, infoKey(name), InfoBytes(info))),
              infoKey(name), TRUE)

writePrivKey(kb, priv, name, passpwd) ==
    LET info == newInfo(name, PubKeyOf(priv), encryptArmorPrivKey(priv, passpwd))
    IN  Wrote(Result("", <<info>>, dbSet(kb, infoKey(name), InfoBytes(info))),
              infoKey(name), TRUE)

\* create master key and derive first key
deriveFromSeed(seed, fullHdPath) ==
    LET master == ComputeMastersFromSeed(seed)
    IN  DerivePrivateKeyForPath(master.secret, master.chainCode, fullHdPath)

\* The seeds and the derivations of the sentences and paths of the client are
\* tabulated, so that TLC computes each of them once; Tabulated(t, x, e) is e,
\* the value of the tabulated operator at x.
Tabulated(table, x, e) ==
    IF \E t \in table : t[1] = x THEN (CHOOSE t \in table : t[1] = x)[2] ELSE e

freshMnemonics == {NewMnemonic(FreshKey, e) : e \in Entropies}

seedTable == { <<m, MnemonicToSeed(m)>> : m \in Mnemonics \cup freshMnemonics }

checkedSeedTable == { <<m, MnemonicToSeedWithErrChecking(m)>> : m \in Mnemonics \cup freshMnemonics }

derivedTable ==
    { <<x, deriveFromSeed(x[1], x[2])>> :
        x \in {t[2] : t \in seedTable}
                \X ({FullFundraiserPath} \cup {ParamsString(p) : p \in DeriveParams}) }

\* persistDerivedKey that encrypts whatever the passphrase
persistDerivedKeyAlwaysEncrypted(kb, seed, passwd, name, fullHdPath) ==
    LET derived == Tabulated(derivedTable, <<seed, fullHdPath>>, deriveFromSeed(seed, fullHdPath))
    IN  IF derived.err # "" THEN Result(derived.err, <<>>, kb)
        ELSE writePrivKey(kb, derived.key, name, passwd)

persistDerivedKey(kb, seed, passwd, name, fullHdPath) ==
    LET derived == Tabulated(derivedTable, <<seed, fullHdPath>>, deriveFromSeed(seed, fullHdPath))
    IN  IF derived.err # "" THEN Result(derived.err, <<>>, kb)
        ELSE IF passwd # "" THEN writePrivKey(kb, derived.key, name, passwd)
        ELSE writePubKey(kb, PubKeyOf(derived.key), name)

\* CreateMnemonic without the test of the algorithm
CreateMnemonicAnyAlgo(kb, name, language, passwd, algo, entropy) ==
    IF language # "English" THEN Result("UnsupportedLanguage", <<>>, kb)
    ELSE LET mnemonic == NewMnemonic(FreshKey, entropy)
             seed == Tabulated(seedTable, mnemonic, MnemonicToSeed(mnemonic))
             r == persistDerivedKey(kb, seed, passwd, name, FullFundraiserPath)
         IN  [r EXCEPT !.out = r.out \o <<mnemonic>>]

CreateMnemonic(kb, name, language, passwd, algo, entropy) ==
    IF language # "English" THEN Result("UnsupportedLanguage", <<>>, kb)
    ELSE IF algo # "secp256k1" THEN Result("UnsupportedAlgorithm", <<>>, kb)
    ELSE LET mnemonic == NewMnemonic(FreshKey, entropy)
             seed == Tabulated(seedTable, mnemonic, MnemonicToSeed(mnemonic))
             r == persistDerivedKey(kb, seed, passwd, name, FullFundraiserPath)
         IN  [r EXCEPT !.out = r.out \o <<mnemonic>>]

\* CreateFundraiserKey without the count of the words
CreateFundraiserKeyAnyLength(kb, name, mnemonic, passwd) ==
    LET s == Tabulated(checkedSeedTable, mnemonic, MnemonicToSeedWithErrChecking(mnemonic))
    IN  IF s.err # "" THEN Result(s.err, <<>>, kb)
        ELSE persistDerivedKey(kb, s.seed, passwd, name, FullFundraiserPath)

CreateFundraiserKey(kb, name, mnemonic, passwd) ==
    IF Len(mnemonic) # 12 THEN Result("InvalidMnemonicLength", <<>>, kb)
    ELSE LET s == Tabulated(checkedSeedTable, mnemonic, MnemonicToSeedWithErrChecking(mnemonic))
         IN  IF s.err # "" THEN Result(s.err, <<>>, kb)
             ELSE persistDerivedKey(kb, s.seed, passwd, name, FullFundraiserPath)

Derive(kb, name, mnemonic, passwd, params) ==
    LET s == Tabulated(checkedSeedTable, mnemonic, MnemonicToSeedWithErrChecking(mnemonic))
    IN  IF s.err # "" THEN Result(s.err, <<>>, kb)
        ELSE persistDerivedKey(kb, s.seed, passwd, name, ParamsString(params))

\* the Infos of the records in the order of the iterator
List(kb) ==
    LET keys == SortedKeys(DOMAIN kb)
    IN  Result("", [i \in 1..Len(keys) |-> readInfo(kb[keys[i]]).info], kb)

Get(kb, name) ==
    LET r == readInfo(dbGet(kb, infoKey(name)))
    IN  Result(r.err, IF r.err = "" THEN <<r.info>> ELSE <<>>, kb)

\* Sign without the test for an empty PrivKeyArmor
SignWithoutArmorTest(kb, name, passphrase, msg) ==
    LET g == Get(kb, name)
    IN  IF g.err # "" THEN Result(g.err, <<>>, kb)
        ELSE LET d == unarmorDecryptPrivKey(g.out[1].PrivKeyArmor, passphrase)
             IN  IF d.err # "" THEN Result(d.err, <<>>, kb)
                 ELSE Result("", <<SignBytes(d.priv, msg), PubKeyOf(d.priv)>>, kb)

\* Sign that leaves the public key it returns unset
SignWithoutPubKey(kb, name, passphrase, msg) ==
    LET g == Get(kb, name)
    IN  IF g.err # "" THEN Result(g.err, <<>>, kb)
        ELSE IF Len(g.out[1].PrivKeyArmor) = 0 THEN Result("PrivateKeyUnavailable", <<>>, kb)
        ELSE LET d == unarmorDecryptPrivKey(g.out[1].PrivKeyArmor, passphrase)
             IN  IF d.err # "" THEN Result(d.err, <<>>, kb)
                 ELSE Result("", <<SignBytes(d.priv, msg), <<>>>>, kb)

Sign(kb, name, passphrase, msg) ==
    LET g == Get(kb, name)
    IN  IF g.err # "" THEN Result(g.err, <<>>, kb)
        ELSE IF Len(g.out[1].PrivKeyArmor) = 0 THEN Result("PrivateKeyUnavailable", <<>>, kb)
        ELSE LET d == unarmorDecryptPrivKey(g.out[1].PrivKeyArmor, passphrase)
             IN  IF d.err # "" THEN Result(d.err, <<>>, kb)
                 ELSE Result("", <<SignBytes(d.priv, msg), PubKeyOf(d.priv)>>, kb)

\* Export that takes the record out of the store
ExportRemoving(kb, name) ==
    LET bz == dbGet(kb, infoKey(name))
    IN  IF Len(bz) = 0 THEN Result("RecordNotFound", <<>>, kb)
        ELSE Wrote(Result("", <<armorInfoBytes(bz)>>, dbDelete(kb, infoKey(name))),
                   infoKey(name), TRUE)

\* Export without the test for a key that is not set
ExportUnchecked(kb, name) ==
    Result("", <<armorInfoBytes(dbGet(kb, infoKey(name)))>>, kb)

Export(kb, name) ==
    LET bz == dbGet(kb, infoKey(name))
    IN  IF Len(bz) = 0 THEN Result("RecordNotFound", <<>>, kb)
        ELSE Result("", <<armorInfoBytes(bz)>>, kb)

ExportPubKey(kb, name) ==
    LET bz == dbGet(kb, infoKey(name))
    IN  IF Len(bz) = 0 THEN Result("RecordNotFound", <<>>, kb)
        ELSE LET r == readInfo(bz)
             IN  IF r.err # "" THEN Result(r.err, <<>>, kb)
                 ELSE Result("", <<armorPubKeyBytes(PubKeyBytes(r.info.PubKey))>>, kb)

\* Import without the look-up of the name
ImportOverwriting(kb, name, armor) ==
    LET u == unarmorInfoBytes(armor)
    IN  IF u.err # "" THEN Result(u.err, <<>>, kb)
        ELSE Wrote(Result("", <<>>, dbSet(kb, infoKey(name), u.bz)), infoKey(name), FALSE)

\* Import that stores a record of the public key only
ImportDroppingArmor(kb, name, armor) ==
    IF Len(dbGet(kb, infoKey(name))) > 0 THEN Result("DuplicateName", <<>>, kb)
    ELSE LET u == unarmorInfoBytes(armor)
         IN  IF u.err # "" THEN Result(u.err, <<>>, kb)
             ELSE [writePubKey(kb, readInfo(u.bz).info.PubKey, name) EXCEPT !.out = <<>>]

Import(kb, name, armor) ==
    IF Len(dbGet(kb, infoKey(name))) > 0 THEN Result("DuplicateName", <<>>, kb)
    ELSE LET u == unarmorInfoBytes(armor)
         IN  IF u.err # "" THEN Result(u.err, <<>>, kb)
             ELSE Wrote(Result("", <<>>, dbSet(kb, infoKey(name), u.bz)), infoKey(name), FALSE)

\* ImportPubKey that takes the armored bytes for the key, without decoding them
ImportPubKeyUndecoded(kb, name, armor) ==
    IF Len(dbGet(kb, infoKey(name))) > 0 THEN Result("DuplicateName", <<>>, kb)
    ELSE LET u == unarmorPubKeyBytes(armor)
         IN  IF u.err # "" THEN Result(u.err, <<>>, kb)
             ELSE [writePubKey(kb, u.bz, name) EXCEPT !.out = <<>>]

ImportPubKey(kb, name, armor) ==
    IF Len(dbGet(kb, infoKey(name))) > 0 THEN Result("DuplicateName", <<>>, kb)
    ELSE LET u == unarmorPubKeyBytes(armor)
         IN  IF u.err # "" THEN Result(u.err, <<>>, kb)
             ELSE LET k == PubKeyFromBytes(u.bz)
                  IN  IF k.err # "" THEN Result(k.err, <<>>, kb)
                      ELSE [writePubKey(kb, k.pub, name) EXCEPT !.out = <<>>]


\* Delete that removes the record before it verifies the passphrase
DeleteBeforeVerify(kb, name, passphrase) ==
    LET g == Get(kb, name)
    IN  IF g.err # "" THEN Result(g.err, <<>>, kb)
        ELSE LET d == unarmorDecryptPrivKey(g.out[1].PrivKeyArmor, passphrase)
             IN  Wrote(Result(d.err, <<>>, dbDelete(kb, infoKey(name))), infoKey(name), TRUE)

\* Delete with the error of the decryption dropped
DeleteUnchecked(kb, name, passphrase) ==
    LET g == Get(kb, name)
    IN  IF g.err # "" THEN Result(g.err, <<>>, kb)
        ELSE Wrote(Result("", <<>>, dbDelete(kb, infoKey(name))), infoKey(name), TRUE)

\* Delete with the record removed under its name instead of its key
DeleteWrongKey(kb, name, passphrase) ==
    LET g == Get(kb, name)
    IN  IF g.err # "" THEN Result(g.err, <<>>, kb)
        ELSE LET d == unarmorDecryptPrivKey(g.out[1].PrivKeyArmor, passphrase)
             IN  IF d.err # "" THEN Result(d.err, <<>>, kb)
                 ELSE Wrote(Result("", <<>>, dbDelete(kb, name)), name, TRUE)

Delete(kb, name, passphrase) ==
    LET g == Get(kb, name)
    IN  IF g.err # "" THEN Result(g.err, <<>>, kb)
        ELSE LET d == unarmorDecryptPrivKey(g.out[1].PrivKeyArmor, passphrase)
             IN  IF d.err # "" THEN Result(d.err, <<>>, kb)
                 ELSE Wrote(Result("", <<>>, dbDelete(kb, infoKey(name))), infoKey(name), TRUE)

\* Update that encrypts with the old passphrase again
UpdateKeepingPassphrase(kb, name, oldpass, newpass) ==
    LET g == Get(kb, name)
    IN  IF g.err # "" THEN Result(g.err, <<>>, kb)
        ELSE LET d == unarmorDecryptPrivKey(g.out[1].PrivKeyArmor, oldpass)
             IN  IF d.err # "" THEN Result(d.err, <<>>, kb)
                 ELSE [writePrivKey(kb, d.priv, name, oldpass) EXCEPT !.out = <<>>]

\* Update with the error of the decryption dropped
UpdateUnchecked(kb, name, oldpass, newpass) ==
    LET g == Get(kb, name)
    IN  IF g.err # "" THEN Result(g.err, <<>>, kb)
        ELSE LET d == unarmorDecryptPrivKey(g.out[1].PrivKeyArmor, oldpass)
             IN  [writePrivKey(kb, d.priv, name, newpass) EXCEPT !.out = <<>>]

Update(kb, name, oldpass, newpass) ==
    LET g == Get(kb, name)
    IN  IF g.err # "" THEN Result(g.err, <<>>, kb)
        ELSE LET d == unarmorDecryptPrivKey(g.out[1].PrivKeyArmor, oldpass)
             IN  IF d.err # "" THEN Result(d.err, <<>>, kb)
                 ELSE [writePrivKey(kb, d.priv, name, newpass) EXCEPT !.out = <<>>]

(***************************************************************************)
(* The state machine: a keybase over one store, called by one client.  The  *)
(* store is the state of the keybase; what a call returns is the value of  *)
(* its operator in the state it is made in.                                *)
(***************************************************************************)
\* db is the store of the keybase as its calls see it and disk is what of it is
\* durable; hd is the call of the hd package that is in progress, if there is
\* one; conc is the state of the threads that call the keybase at once; ledger
\* is the Ledger device and the key of it a client holds
VARIABLES db, disk, hd, conc, ledger

vars == <<db, disk, hd, conc, ledger>>

\* the armor strings the client holds: what Export and ExportPubKey return for
\* the records of the store, and a string that is no armor
ArmorInputs(kb) ==
    LET present == {n \in Names : infoKey(n) \in DOMAIN kb}
    IN  {Export(kb, n).out[1] : n \in present}
            \cup {ExportPubKey(kb, n).out[1] : n \in present}
            \cup {[blockType |-> "", data |-> <<>>]}

\* no call of the hd package is in progress
NoHd == [kind |-> "none"]

\* the durable store after a call: what the call wrote or deleted with Sync is
\* durable when the call returns
Persisted(d, r) ==
    [k \in (DOMAIN d \ r.synced) \cup (r.synced \cap DOMAIN r.db) |->
        IF k \in r.synced THEN r.db[k] ELSE d[k]]

Threads == {"t1", "t2"}

\* a thread that has called nothing
Idle == [op |-> "none", pc |-> "idle", pass |-> "", newpass |-> "", write |-> <<>>, err |-> ""]

\* no thread has called anything; base is the store the first call found,
\* overlap tells whether a call began while another was in progress, and last
\* is the thread whose write was the last
NoCalls == [base |-> <<>>, overlap |-> FALSE, last |-> "", th |-> [t \in Threads |-> Idle]]

\* a call leaves the store its result carries
Call(r) == db' = r.db /\ disk' = Persisted(disk, r) /\ UNCHANGED <<hd, conc, ledger>>

\* a nil PubKey
NilPubKey == <<>>

\* no Ledger device is plugged in
Unplugged == [plugged |-> FALSE, open |-> FALSE, keys |-> <<>>]

\* no device is plugged in, the client holds no key of a device (made tells
\* where the key it holds is from) and has called nothing; ret is what its
\* last call returned and the round trips to the device the call made
NoLedger ==
    [device |-> Unplugged, pk |-> [CachedPubKey |-> NilPubKey, Path |-> <<>>],
     made |-> "none", ret |-> [op |-> "none", err |-> "", trips |-> 0]]

Init == db = <<>> /\ disk = <<>> /\ hd = NoHd /\ conc = NoCalls /\ ledger = NoLedger

CallCreateMnemonic ==
    \E name \in Names, language \in Languages, passwd \in Passphrases, algo \in Algos,
       entropy \in Entropies :
        Call(CreateMnemonic(db, name, language, passwd, algo, entropy))

CallCreateFundraiserKey ==
    \E name \in Names, mnemonic \in Mnemonics, passwd \in Passphrases :
        Call(CreateFundraiserKey(db, name, mnemonic, passwd))

CallDerive ==
    \E name \in Names, mnemonic \in Mnemonics, passwd \in Passphrases,
       params \in DeriveParams :
        Call(Derive(db, name, mnemonic, passwd, params))

CallList == Call(List(db))

CallGet == \E name \in LookupNames : Call(Get(db, name))

CallSign ==
    \E name \in Names, passphrase \in Passphrases, msg \in Msgs :
        Call(Sign(db, name, passphrase, msg))

CallExport == \E name \in LookupNames : Call(Export(db, name))

CallExportPubKey == \E name \in LookupNames : Call(ExportPubKey(db, name))

CallImport ==
    \E name \in Names, armor \in ArmorInputs(db) : Call(Import(db, name, armor))

CallImportPubKey ==
    \E name \in Names, armor \in ArmorInputs(db) :
        Call(ImportPubKey(db, name, armor))

CallDelete ==
    \E name \in Names, passphrase \in Passphrases :
        Call(Delete(db, name, passphrase))

CallUpdate ==
    \E name \in Names, oldpass \in Passphrases, newpass \in Passphrases :
        Call(Update(db, name, oldpass, newpass))

Next ==
    \/ CallCreateMnemonic
    \/ CallCreateFundraiserKey
    \/ CallDerive
    \/ CallList
    \/ CallGet
    \/ CallSign
    \/ CallExport
    \/ CallExportPubKey
    \/ CallImport
    \/ CallImportPubKey
    \/ CallDelete
    \/ CallUpdate

Spec == Init /\ [][Next]_vars


(***************************************************************************)
(* The keybase with a client that also imports armor strings no keybase    *)
(* exported.  Import takes any string: the armor of an Info can be written *)
(* by hand or by another program, with whatever fields.                    *)
(***************************************************************************)
\* two secret keys with public keys that differ
CraftedKeys == {FixedBytes(1, KeyLen), FixedBytes(2, KeyLen)}

\* the armor of an Info with the public key of one secret key and the
\* encrypted armor of another
CraftedArmors ==
    { armorInfoBytes(InfoBytes(newInfo(name, PubKeyOf(shown), encryptArmorPrivKey(priv, "p1")))) :
        name \in Names, shown \in CraftedKeys, priv \in CraftedKeys }

CallImportCrafted ==
    \E name \in Names, armor \in CraftedArmors : Call(Import(db, name, armor))

CraftedNext == Next \/ CallImportCrafted

CraftedSpec == Init /\ [][CraftedNext]_vars

(***************************************************************************)
(* The keybase on a store that may lose what is not durable.  The process  *)
(* may crash between two calls and start again on the durable store, and   *)
(* the store may make durable, at any time, what was written without Sync. *)
(***************************************************************************)
Crash ==
    /\ db' = disk
    /\ UNCHANGED <<disk, hd, conc, ledger>>

StoreFlush ==
    /\ disk # db
    /\ disk' = db
    /\ UNCHANGED <<db, hd, conc, ledger>>

DurableNext ==
    \/ Next
    \/ Crash
    \/ StoreFlush

DurableSpec == Init /\ [][DurableNext]_vars

(***************************************************************************)
(* The keybase called by two threads.  Update and Delete read the store    *)
(* once, with Get, and write it once, with SetSync or DeleteSync; the two  *)
(* are steps of their own, and the steps of the threads interleave.  The   *)
(* threads call Update and Delete for one name, ConcName.                  *)
(***************************************************************************)
ConcName == <<"a">>

\* the call of a thread, run on the store kb
CallOf(c, kb) ==
    IF c.op = "Update" THEN Update(kb, ConcName, c.pass, c.newpass)
    ELSE Delete(kb, ConcName, c.pass)

InProgress(c) == c.pc = "write"

\* a record is derived before the threads start
ConcDerive ==
    /\ db = <<>> /\ conc = NoCalls
    /\ \E mnemonic \in Mnemonics, passwd \in Passphrases :
           Call(Derive(db, ConcName, mnemonic, passwd, NewFundraiserParams(0, FALSE, 0)))

\* a thread calls Update or Delete; the call runs up to its write: it returns
\* its error, or it has the write it is about to do, the key and, for SetSync,
\* the bytes
ThreadCall(t) ==
    /\ conc.th[t].pc = "idle"
    /\ \E op \in {"Update", "Delete"}, pass \in Passphrases, newpass \in Passphrases :
           /\ op = "Delete" => newpass = ""
           /\ LET c == [Idle EXCEPT !.op = op, !.pass = pass, !.newpass = newpass]
                  r == CallOf(c, db)
                  key == CHOOSE k \in r.synced : TRUE
                  called == IF r.err # "" THEN [c EXCEPT !.pc = "done", !.err = r.err]
                            ELSE [c EXCEPT !.pc = "write",
                                           !.write = IF key \in DOMAIN r.db
                                                     THEN <<key, r.db[key]>> ELSE <<key>>]
              IN  conc' = [conc EXCEPT
                      !.th[t] = called,
                      !.base = IF \A u \in Threads : conc.th[u].pc = "idle" THEN db ELSE @,
                      !.overlap = @ \/ \E u \in Threads \ {t} : InProgress(conc.th[u])]
    /\ UNCHANGED <<db, disk, hd, ledger>>

\* the thread does its write, kb.db.SetSync or kb.db.DeleteSync, and returns
ThreadWrite(t) ==
    /\ InProgress(conc.th[t])
    /\ LET w == conc.th[t].write
           kb == IF Len(w) = 2 THEN dbSet(db, w[1], w[2]) ELSE dbDelete(db, w[1])
           r == Wrote(Result("", <<>>, kb), w[1], TRUE)
       IN  db' = r.db /\ disk' = Persisted(disk, r)
    /\ conc' = [conc EXCEPT !.th[t].pc = "done", !.last = t]
    /\ UNCHANGED <<hd, ledger>>

ConcNext ==
    \/ ConcDerive
    \/ \E t \in Threads : ThreadCall(t)
    \/ \E t \in Threads : ThreadWrite(t)

ConcSpec == Init /\ [][ConcNext]_vars

(***************************************************************************)
(* The hd package on its own (keys/hd/hdpath.go).  A client holds a seed   *)
(* and a path, computes the masters of the seed and walks the path with    *)
(* DerivePrivateKeyForPath, one turn of its loop at a time; when the call  *)
(* is over it may call again with the same seed and path, and the keybase  *)
(* may be used in between.  Another client adds two scalars.               *)
(***************************************************************************)
HdSeeds == {t[2] : t \in seedTable}

\* the path of the tests, the path of the keybase, paths with a part that is
\* empty, no number or negative, and paths with an index of 2^31 and more
HdPaths ==
    { <<"4", "4", "'", "/", "1", "1", "8", "'", "/", "0", "'", "/", "0", "/", "0">>,
      FullFundraiserPath,
      <<>>,
      <<"0", "/", "/", "1">>,
      <<"0", "'", "/", "a">>,
      <<"-", "1">>,
      <<"0">>, <<"1">>, <<"0", "'">>, <<"1", "'">>,
      <<"0", "/", "1">>, <<"1", "/", "0">>,
      Itoa(HardenedBit), Itoa(HardenedBit) \o <<"'">>,
      Itoa(Uint32Mod), Itoa(Uint32Mod + 1) \o <<"'">>,
      Itoa(MaxInt) \o <<"0">> }

\* the result of a call that has not returned
NoResult == [err |-> "none", key |-> <<>>]

PathCalls ==
    { [kind |-> "path", seed |-> seed, path |-> path, phase |-> "start",
       data |-> <<>>, chainCode |-> <<>>, parts |-> <<>>, calls |-> 0,
       first |-> NoResult] : seed \in HdSeeds, path \in HdPaths }

Scalars == { FixedBytes(n, KeyLen) : n \in 0..(Pow(ByteBase, KeyLen) - 1) }

ScalarCalls ==
    { [kind |-> "add", a |-> a, b |-> b, phase |-> "start", x |-> <<>>] :
        a \in Scalars, b \in Scalars }

\* the values a client gives the fields of BIP44Params: those of the tests and
\* the largest uint32
ParamValues == {0, 1, 44, 60, 118, Uint32Mod - 1}

ParamsCalls ==
    { [kind |-> "params", phase |-> "start", str |-> <<>>,
       params |-> NewParams(purpose, coinType, account, change, addressIdx)] :
        purpose \in {0, 44}, coinType \in ParamValues, account \in ParamValues,
        change \in BOOLEAN, addressIdx \in ParamValues }

\* the entry of the call that forgets nothing of the call before it
EnterCallKeepingData(w) ==
    IF w.calls = 0
    THEN LET master == ComputeMastersFromSeed(w.seed)
         IN  [w EXCEPT !.phase = "loop", !.data = master.secret,
                       !.chainCode = master.chainCode, !.parts = Split(w.path, "/")]
    ELSE [w EXCEPT !.phase = "loop", !.parts = Split(w.path, "/")]

\* master, ch := ComputeMastersFromSeed(seed), then the entry of
\* DerivePrivateKeyForPath(master, ch, path): data := privKeyBytes and the
\* path split at "/"
EnterCall(w) ==
    LET master == ComputeMastersFromSeed(w.seed)
    IN  [w EXCEPT !.phase = "loop", !.data = master.secret,
                  !.chainCode = master.chainCode, !.parts = Split(w.path, "/")]

\* one turn of the loop of DerivePrivateKeyForPath
LoopTurn(w) ==
    LET p == ParsePart(Head(w.parts))
    IN  IF p.err THEN [w EXCEPT !.phase = "panicked"]
        ELSE LET d == DerivePrivateKey(w.data, w.chainCode, p.index, p.prime)
             IN  [w EXCEPT !.data = d.key, !.chainCode = d.chainCode,
                           !.parts = Tail(w.parts)]

\* what the call that is over gave its caller
ResultOf(w) ==
    IF w.phase = "panicked" THEN [err |-> "panic", key |-> <<>>]
    ELSE [err |-> "", key |-> w.data]

Over(w) == w.kind = "path" /\ w.phase \in {"returned", "panicked"}

HdInit ==
    /\ db = <<>> /\ disk = <<>> /\ conc = NoCalls /\ ledger = NoLedger
    /\ hd \in PathCalls \cup ScalarCalls \cup ParamsCalls

HdComputeMasters ==
    /\ hd.kind = "path" /\ hd.phase = "start"
    /\ hd' = EnterCall(hd)
    /\ UNCHANGED <<db, disk, conc, ledger>>

HdDerivePrivateKey ==
    /\ hd.kind = "path" /\ hd.phase = "loop" /\ Len(hd.parts) > 0
    /\ hd' = LoopTurn(hd)
    /\ UNCHANGED <<db, disk, conc, ledger>>

HdReturn ==
    /\ hd.kind = "path" /\ hd.phase = "loop" /\ Len(hd.parts) = 0
    /\ hd' = [hd EXCEPT !.phase = "returned"]
    /\ UNCHANGED <<db, disk, conc, ledger>>

\* the client calls again, with the seed and the path of its first call
HdCallAgain ==
    /\ Over(hd) /\ hd.calls = 0
    /\ hd' = [hd EXCEPT !.phase = "start", !.calls = 1, !.first = ResultOf(hd)]
    /\ UNCHANGED <<db, disk, conc, ledger>>

\* between its two calls the client has the keybase derive a watch-only key
HdKeybaseCall ==
    /\ Over(hd) /\ hd.calls = 0
    /\ \E name \in Names, mnemonic \in Mnemonics :
           Call(Derive(db, name, mnemonic, "", NewFundraiserParams(0, FALSE, 0)))

HdAddScalars ==
    /\ hd.kind = "add" /\ hd.phase = "start"
    /\ hd' = [hd EXCEPT !.phase = "returned", !.x = addScalars(hd.a, hd.b)]
    /\ UNCHANGED <<db, disk, conc, ledger>>

HdParamsString ==
    /\ hd.kind = "params" /\ hd.phase = "start"
    /\ hd' = [hd EXCEPT !.phase = "returned", !.str = ParamsString(hd.params)]
    /\ UNCHANGED <<db, disk, conc, ledger>>

HdNext ==
    \/ HdComputeMasters
    \/ HdDerivePrivateKey
    \/ HdReturn
    \/ HdCallAgain
    \/ HdKeybaseCall
    \/ HdAddScalars
    \/ HdParamsString

HdSpec == HdInit /\ [][HdNext]_vars

(***************************************************************************)
(* The key of a Ledger device (PrivKeyLedgerSecp256k1).  A device is       *)
(* plugged in or not, and when it is, its app is open or not; an open      *)
(* device answers with the keys of its seed.  The methods of the key have  *)
(* value receivers: what they assign to pk.CachedPubKey they assign to     *)
(* their copy of the key, and the key of the caller stays as it was.       *)
(***************************************************************************)
LedgerPaths ==
    { ParamsString(NewFundraiserParams(account, FALSE, 0)) : account \in {0, 1} }

\* the seeds of the devices a client may plug in
DeviceSeeds == { FixedBytes(n, 2 * KeyLen) : n \in {27, 114, 201} }

\* no device, a device whose app is closed, and for each seed a device whose
\* app is open: keys are the secret keys of its seed along the paths
LedgerDevices ==
    { Unplugged, [plugged |-> TRUE, open |-> FALSE, keys |-> <<>>] }
        \cup { [plugged |-> TRUE, open |-> TRUE,
                keys |-> [path \in LedgerPaths |-> deriveFromSeed(seed, path).key]] :
                    seed \in DeviceSeeds }

\* the secret key the device holds for a path
DeviceKey(device, path) == device.keys[path]

\* pubkeyLedgerSecp256k1: device.GetPublicKeySECP256K1(path)
pubkeyLedgerSecp256k1(device, path) ==
    IF ~device.open THEN [err |-> "error fetching public key", pub |-> NilPubKey]
    ELSE [err |-> "", pub |-> PubKeyOf(DeviceKey(device, path))]

\* signLedgerSecp256k1: device.SignSECP256K1(path, msg)
signLedgerSecp256k1(device, path, msg) ==
    IF ~device.open THEN [err |-> "error signing", sig |-> <<>>]
    ELSE [err |-> "", sig |-> <<SignBytes(DeviceKey(device, path), msg)>>]

\* forceGetPubKey: getLedger, then pubkeyLedgerSecp256k1
forceGetPubKey(pk, device) ==
    IF ~device.plugged
    THEN [err |-> "cannot connect to Ledger device", key |-> NilPubKey, trips |-> 0]
    ELSE LET r == pubkeyLedgerSecp256k1(device, pk.Path)
         IN  [err |-> IF r.err # "" THEN "please open Cosmos app on the Ledger device" ELSE "",
              key |-> r.pub, trips |-> 1]

\* getPubKey; copy is the receiver, the copy of the key the method ran on, as
\* the method leaves it
getPubKey(pk, device) ==
    IF pk.CachedPubKey = NilPubKey
    THEN LET f == forceGetPubKey(pk, device)
         IN  [key |-> f.key, err |-> f.err, trips |-> f.trips,
              copy |-> [pk EXCEPT !.CachedPubKey = f.key]]
    ELSE [key |-> pk.CachedPubKey, err |-> "", trips |-> 0, copy |-> pk]

\* NewPrivKeyLedgerSecp256k1: pk.getPubKey() runs on a copy of pk, and &pk,
\* the key that is returned, is the pk the copy was taken of
NewPrivKeyLedgerSecp256k1(path, device) ==
    LET pk == [CachedPubKey |-> NilPubKey, Path |-> path]
        g  == getPubKey(pk, device)
    IN  [pk |-> pk, err |-> g.err, trips |-> g.trips]

\* PrivKeyLedgerSecp256k1.PubKey
LedgerPubKey(pk, device) == getPubKey(pk, device)

\* PrivKeyLedgerSecp256k1.Sign
LedgerSign(pk, msg, device) ==
    IF ~device.plugged THEN [err |-> "cannot connect to Ledger device", sig |-> <<>>, trips |-> 0]
    ELSE LET s == signLedgerSecp256k1(device, pk.Path, msg)
             p == pubkeyLedgerSecp256k1(device, pk.Path)
         IN  IF s.err # "" THEN [err |-> s.err, sig |-> <<>>, trips |-> 1]
             ELSE IF p.err # "" THEN [err |-> p.err, sig |-> <<>>, trips |-> 2]
             ELSE IF pk.CachedPubKey # NilPubKey /\ pk.CachedPubKey # p.pub
             THEN [err |-> "stored key does not match signing key", sig |-> <<>>, trips |-> 2]
             ELSE [err |-> "", sig |-> s.sig, trips |-> 2]

\* PrivKeyLedgerSecp256k1.ValidateKey
LedgerValidateKey(pk, device) ==
    LET f == forceGetPubKey(pk, device)
    IN  IF f.err # "" THEN [err |-> f.err, trips |-> f.trips]
        ELSE IF f.key # pk.CachedPubKey
        THEN [err |-> "cached key does not match retrieved key", trips |-> f.trips]
        ELSE [err |-> "", trips |-> f.trips]

\* PrivKeyLedgerSecp256k1.Equals: pk.CachedPubKey.Equals(...) on a nil
\* CachedPubKey is a call on a nil interface, which panics
LedgerEquals(pk, other) ==
    IF pk.CachedPubKey = NilPubKey THEN [err |-> "panic", out |-> FALSE, trips |-> 0]
    ELSE [err |-> "", out |-> pk.CachedPubKey = other.CachedPubKey, trips |-> 0]

Returned(op, r) == [op |-> op, err |-> r.err, trips |-> r.trips]

\* a device is plugged in or taken out, its app is opened or closed
PlugDevice ==
    /\ \E device \in LedgerDevices :
           device # ledger.device /\ ledger' = [ledger EXCEPT !.device = device]
    /\ UNCHANGED <<db, disk, hd, conc>>

CallNewPrivKeyLedgerSecp256k1 ==
    /\ \E path \in LedgerPaths :
           LET r == NewPrivKeyLedgerSecp256k1(path, ledger.device)
           IN  ledger' = [ledger EXCEPT
                   !.pk = IF r.err = "" THEN r.pk ELSE @,
                   !.made = IF r.err = "" THEN "new" ELSE @,
                   !.ret = Returned("New", r)]
    /\ UNCHANGED <<db, disk, hd, conc>>

\* the client decodes a key it stored with Bytes, with the public key that was
\* cached in it
LoadKey ==
    /\ \E path \in LedgerPaths, device \in LedgerDevices :
           /\ device.open
           /\ ledger' = [ledger EXCEPT
                  !.pk = [CachedPubKey |-> pubkeyLedgerSecp256k1(device, path).pub,
                          Path |-> path],
                  !.made = "loaded",
                  !.ret = [op |-> "Load", err |-> "", trips |-> 0]]
    /\ UNCHANGED <<db, disk, hd, conc>>

CallLedgerPubKey ==
    /\ ledger.made # "none"
    /\ ledger' = [ledger EXCEPT !.ret = Returned("PubKey", LedgerPubKey(ledger.pk, ledger.device))]
    /\ UNCHANGED <<db, disk, hd, conc>>

CallLedgerSign ==
    /\ ledger.made # "none"
    /\ \E msg \in Msgs :
           ledger' = [ledger EXCEPT
               !.ret = Returned("Sign", LedgerSign(ledger.pk, msg, ledger.device))]
    /\ UNCHANGED <<db, disk, hd, conc>>

CallLedgerValidateKey ==
    /\ ledger.made # "none"
    /\ ledger' = [ledger EXCEPT
           !.ret = Returned("ValidateKey", LedgerValidateKey(ledger.pk, ledger.device))]
    /\ UNCHANGED <<db, disk, hd, conc>>

\* the key is compared with itself
CallLedgerEquals ==
    /\ ledger.made # "none"
    /\ ledger' = [ledger EXCEPT !.ret = Returned("Equals", LedgerEquals(ledger.pk, ledger.pk))]
    /\ UNCHANGED <<db, disk, hd, conc>>

LedgerNext ==
    \/ PlugDevice
    \/ CallNewPrivKeyLedgerSecp256k1
    \/ LoadKey
    \/ CallLedgerPubKey
    \/ CallLedgerSign
    \/ CallLedgerValidateKey
    \/ CallLedgerEquals

LedgerSpec == Init /\ [][LedgerNext]_vars

(***************************************************************************)
(* The claims.  A record is present under a name when Get finds it; it is  *)
(* watch-only when its PrivKeyArmor is empty.                              *)
(***************************************************************************)
Present(kb, name) == Get(kb, name).err = ""

InfoOf(kb, name) == Get(kb, name).out[1]

WatchOnly(kb, name) == Present(kb, name) /\ Len(InfoOf(kb, name).PrivKeyArmor) = 0

\* the record of a name is encrypted when its PrivKeyArmor is not empty; the
\* armor then carries the passphrase it was encrypted with
Encrypted(kb, name) == Present(kb, name) /\ ~WatchOnly(kb, name)

CurrentPassphrase(kb, name) == InfoOf(kb, name).PrivKeyArmor[1].passphrase

\* C1: CreateMnemonic with the supported language and algorithm, for a name
\* that has a record, returns DuplicateName and leaves the store as it was.
C1_CreateDuplicateName ==
    \A name \in Names, passwd \in Passphrases, entropy \in Entropies :
        Present(db, name) =>
            LET r == CreateMnemonic(db, name, "English", passwd, "secp256k1", entropy)
            IN  r.err = "DuplicateName" /\ r.db = db

\* C2: the public key of a record never changes from one state to the next
\* while the record stays in the store.
C2_PubKeyImmutable ==
    [][\A name \in Names :
          (Present(db, name) /\ Present(db', name))
          => InfoOf(db', name).PubKey = InfoOf(db, name).PubKey]_vars

\* C3: the sequence List returns is in ascending byte order of the names of
\* its records: no record is followed by one whose name is smaller.
C3_ListSortedByName ==
    LET infos == List(db).out
    IN  \A i \in 1..(Len(infos) - 1) : ~BytesLess(infos[i + 1].Name, infos[i].Name)

\* C4: no two records of the sequence List returns have the same Name.
C4_ListNamesUnique ==
    LET infos == List(db).out
    IN  \A i, j \in 1..Len(infos) : i # j => infos[i].Name # infos[j].Name

\* the passphrases with which Sign, Update and Delete succeed on a record
ValidFor(kb, name) ==
    [op \in {"Sign", "Update", "Delete"} |->
        {q \in Passphrases :
            CASE op = "Sign" -> \A msg \in Msgs : Sign(kb, name, q, msg).err = ""
              [] op = "Update" -> Update(kb, name, q, q).err = ""
              [] op = "Delete" -> Delete(kb, name, q).err = ""}]

\* C5: Update fails unless oldpass decrypts the armor of the record of the
\* name, which no passphrase does for a name without a record or for a
\* watch-only record; an Update that fails leaves the store, and with it the
\* passphrases that are valid for the record, as they were.
C5_UpdateNeedsOldPassphrase ==
    \A name \in Names, oldpass \in Passphrases, newpass \in Passphrases :
        LET r == Update(db, name, oldpass, newpass)
            decrypts == /\ Present(db, name)
                        /\ ~WatchOnly(db, name)
                        /\ InfoOf(db, name).PrivKeyArmor[1].passphrase = oldpass
        IN  /\ ~decrypts => r.err # ""
            /\ r.err # "" =>
                  /\ r.db = db
                  /\ Encrypted(db, name) =>
                         \A msg \in Msgs :
                             Sign(r.db, name, CurrentPassphrase(db, name), msg).err = ""

\* C5 witness: the store holds an encrypted record, and an Update of it with a
\* passphrase that is not its own fails
C5_Witness ==
    \E name \in Names, oldpass \in Passphrases, newpass \in Passphrases :
        /\ Encrypted(db, name) /\ oldpass # CurrentPassphrase(db, name)
        /\ Update(db, name, oldpass, newpass).err = "DecryptionFailed"

\* C6: after an Update that succeeds the record has the Name and the PubKey it
\* had, and newpass is the one passphrase with which Sign, Update and Delete
\* succeed.
C6_UpdateKeepsNameAndKey ==
    \A name \in Names, oldpass \in Passphrases, newpass \in Passphrases :
        LET r == Update(db, name, oldpass, newpass)
        IN  r.err = "" =>
                /\ Present(r.db, name)
                /\ InfoOf(r.db, name).Name = InfoOf(db, name).Name
                /\ InfoOf(r.db, name).PubKey = InfoOf(db, name).PubKey
                /\ \A op \in {"Sign", "Update", "Delete"} :
                       ValidFor(r.db, name)[op] = {newpass}

\* C7: Delete with a passphrase that does not decrypt the record of the name
\* fails with DecryptionFailed, and Get returns the record as it was.
C7_DeleteWrongPassphrase ==
    \A name \in Names, passphrase \in Passphrases :
        LET r == Delete(db, name, passphrase)
        IN  (Present(db, name)
                /\ unarmorDecryptPrivKey(InfoOf(db, name).PrivKeyArmor, passphrase).err # "")
            => /\ r.err = "DecryptionFailed"
               /\ Get(r.db, name).err = ""
               /\ Get(r.db, name).out = Get(db, name).out

\* C7 witness: the store holds an encrypted record, and a Delete of it with a
\* passphrase that is not its own fails
C7_Witness ==
    \E name \in Names, passphrase \in Passphrases :
        /\ Encrypted(db, name) /\ passphrase # CurrentPassphrase(db, name)
        /\ Delete(db, name, passphrase).err = "DecryptionFailed"

\* C8: after a Delete that succeeds Get fails for the name, and List returns
\* the records of the other keys, in their order, and nothing else.
C8_DeleteRemovesRecord ==
    \A name \in Names, passphrase \in Passphrases :
        LET r == Delete(db, name, passphrase)
            others == SelectSeq(SortedKeys(DOMAIN db), LAMBDA k : k # infoKey(name))
        IN  r.err = "" =>
                /\ Get(r.db, name).err # ""
                /\ List(r.db).out = [i \in 1..Len(others) |-> readInfo(db[others[i]]).info]
                /\ Len(List(r.db).out) = Len(List(db).out) - 1

\* C8 witness: the store holds two records and a Delete of one of them
\* succeeds, which leaves the other one listed
C8_Witness ==
    \E name \in Names, passphrase \in Passphrases :
        /\ Len(List(db).out) = 2
        /\ Delete(db, name, passphrase).err = ""
        /\ Len(List(Delete(db, name, passphrase).db).out) = 1

\* C9: for every record of the store, encrypted or watch-only, there is a
\* passphrase with which Delete succeeds and after which the name has no record.
C9_DeleteAlwaysPossible ==
    \A name \in Names :
        Present(db, name) =>
            \E passphrase \in Passphrases :
                LET r == Delete(db, name, passphrase)
                IN  r.err = "" /\ ~Present(r.db, name)

\* C10: a record that is watch-only is watch-only in the next state unless the
\* step removes it.
C10_WatchOnlyStaysWatchOnly ==
    [][\A name \in Names :
          (WatchOnly(db, name) /\ Present(db', name)) => WatchOnly(db', name)]_vars

\* C11: for a name that has a record, Import and ImportPubKey fail with
\* DuplicateName, whatever the armor string, and leave the store as it was.
C11_ImportNeverOverwrites ==
    \A name \in Names, armor \in ArmorInputs(db) :
        Present(db, name) =>
            /\ Import(db, name, armor).err = "DuplicateName"
            /\ Import(db, name, armor).db = db
            /\ ImportPubKey(db, name, armor).err = "DuplicateName"
            /\ ImportPubKey(db, name, armor).db = db

\* C11 witness: the armor of a record is imported under a name that has a
\* record, and Import refuses it
C11_Witness ==
    \E name \in Names, other \in Names :
        /\ Present(db, name) /\ Present(db, other)
        /\ Import(db, name, Export(db, other).out[1]).err = "DuplicateName"
        /\ ImportPubKey(db, name, ExportPubKey(db, other).out[1]).err = "DuplicateName"

\* C12: for a record n1 and a name n2 without a record, Import(n2, Export(n1))
\* succeeds; the record of n2 then has the PubKey, the Address and the
\* PrivKeyArmor of the record of n1, and the record of n1 is as it was.
C12_ExportImportRoundTrip ==
    \A n1 \in Names, n2 \in Names :
        (Present(db, n1) /\ ~Present(db, n2)) =>
            LET e == Export(db, n1)
                r == Import(db, n2, e.out[1])
            IN  /\ e.err = "" /\ r.err = ""
                /\ Present(r.db, n2)
                /\ InfoOf(r.db, n2).PubKey = InfoOf(db, n1).PubKey
                /\ Address(InfoOf(r.db, n2)) = Address(InfoOf(db, n1))
                /\ InfoOf(r.db, n2).PrivKeyArmor = InfoOf(db, n1).PrivKeyArmor
                /\ Get(r.db, n1) = [Get(db, n1) EXCEPT !.db = r.db]

\* C12 witness: the store holds an encrypted record and a name without a
\* record, and the Import of the exported record under that name succeeds
C12_Witness ==
    \E n1 \in Names, n2 \in Names :
        /\ Encrypted(db, n1) /\ ~Present(db, n2)
        /\ Import(db, n2, Export(db, n1).out[1]).err = ""

\* C13: for a record n1 and a name n2 without a record,
\* ImportPubKey(n2, ExportPubKey(n1)) succeeds and stores a watch-only record
\* with the PubKey of the record of n1, and the record of n1 is as it was.
C13_PubKeyRoundTrip ==
    \A n1 \in Names, n2 \in Names :
        (Present(db, n1) /\ ~Present(db, n2)) =>
            LET e == ExportPubKey(db, n1)
                r == ImportPubKey(db, n2, e.out[1])
            IN  /\ e.err = "" /\ r.err = ""
                /\ WatchOnly(r.db, n2)
                /\ InfoOf(r.db, n2).PubKey = InfoOf(db, n1).PubKey
                /\ Get(r.db, n1) = [Get(db, n1) EXCEPT !.db = r.db]

\* C13 witness: the store holds an encrypted record and a name without a
\* record, and the ImportPubKey of the exported key under that name succeeds
C13_Witness ==
    \E n1 \in Names, n2 \in Names :
        /\ Encrypted(db, n1) /\ ~Present(db, n2)
        /\ ImportPubKey(db, n2, ExportPubKey(db, n1).out[1]).err = ""

\* C14: Sign fails with RecordNotFound for a name without a record, with
\* PrivateKeyUnavailable for a watch-only record whatever the passphrase, and
\* with DecryptionFailed for an encrypted record and a passphrase that is not
\* the current one; in each of these cases it returns no signature and no key.
C14_SignErrors ==
    \A name \in Names, passphrase \in Passphrases, msg \in Msgs :
        LET r == Sign(db, name, passphrase, msg)
        IN  /\ ~Present(db, name) => (r.err = "RecordNotFound" /\ r.out = <<>>)
            /\ WatchOnly(db, name) => (r.err = "PrivateKeyUnavailable" /\ r.out = <<>>)
            /\ (Encrypted(db, name) /\ passphrase # CurrentPassphrase(db, name))
                   => (r.err = "DecryptionFailed" /\ r.out = <<>>)
            /\ r.db = db

\* C14 witness: the store holds a watch-only record, for which Sign is
\* refused, and an encrypted one, for which Sign fails on another passphrase
C14_Witness ==
    \E n1 \in Names, n2 \in Names, passphrase \in Passphrases, msg \in Msgs :
        /\ WatchOnly(db, n1)
        /\ Sign(db, n1, passphrase, msg).err = "PrivateKeyUnavailable"
        /\ Encrypted(db, n2) /\ passphrase # CurrentPassphrase(db, n2)
        /\ Sign(db, n2, passphrase, msg).err = "DecryptionFailed"

C16_DeriveRecordKind ==
    \A name \in Names, mnemonic \in Mnemonics, passwd \in Passphrases, params \in DeriveParams :
        LET r == Derive(db, name, mnemonic, passwd, params)
        IN  /\ ChecksumOk(mnemonic) => r.err = ""
            /\ r.err = "" =>
                  IF passwd = "" THEN WatchOnly(r.db, name)
                  ELSE /\ Encrypted(r.db, name)
                       /\ unarmorDecryptPrivKey(InfoOf(r.db, name).PrivKeyArmor, passwd).err = ""

\* C16 witness: a Derive without a passphrase succeeds and stores a
\* watch-only record, in a store that holds an encrypted record
C16_Witness ==
    \E name \in Names, mnemonic \in Mnemonics, params \in DeriveParams :
        /\ Derive(db, name, mnemonic, "", params).err = ""
        /\ WatchOnly(Derive(db, name, mnemonic, "", params).db, name)
        /\ \E other \in Names \ {name} : Encrypted(db, other)

C18_CreateThenDeriveSameKey ==
    \A n1 \in Names, n2 \in Names, p1 \in Passphrases, p2 \in Passphrases, entropy \in Entropies :
        (n1 # n2 /\ ~Present(db, n1) /\ p1 # "") =>
            LET c == CreateMnemonic(db, n1, "English", p1, "secp256k1", entropy)
                m == c.out[Len(c.out)]
                gone == Delete(c.db, n1, p1).db
                d == Derive(gone, n2, m, p2, NewFundraiserParams(0, FALSE, 0))
            IN  /\ c.err = "" /\ d.err = ""
                /\ InfoOf(d.db, n2).PubKey = c.out[1].PubKey
                /\ Address(InfoOf(d.db, n2)) = Address(c.out[1])

C20_LookupNeedsExactName ==
    \A name \in LookupNames :
        (\A stored \in Names : Present(db, stored) => stored # name) =>
            /\ Get(db, name).err = "RecordNotFound" /\ Get(db, name).out = <<>>
            /\ Export(db, name).err = "RecordNotFound" /\ Export(db, name).out = <<>>
            /\ ExportPubKey(db, name).err = "RecordNotFound"
            /\ ExportPubKey(db, name).out = <<>>

\* C20 witness: the store holds a record under the name a, and Get fails for a
\* name that is close to a
C20_Witness ==
    \E name \in LookupNames \ Names :
        /\ Present(db, <<"a">>)
        /\ Get(db, name).err = "RecordNotFound"
        /\ Export(db, name).err = "RecordNotFound"

\* C21: CreateMnemonic with English, secp256k1 and a passphrase, for a name
\* without a record, succeeds, and Get of the name then returns a record with
\* that Name and a PrivKeyArmor that is not empty.
C21_CreateThenGet ==
    \A name \in Names, passwd \in Passphrases, entropy \in Entropies :
        (~Present(db, name) /\ passwd # "") =>
            LET c == CreateMnemonic(db, name, "English", passwd, "secp256k1", entropy)
                g == Get(c.db, name)
            IN  /\ c.err = "" /\ g.err = ""
                /\ g.out[1].Name = name
                /\ Len(g.out[1].PrivKeyArmor) > 0

\* a path is syntactically valid when each of its parts is a string of digits,
\* with or without the prime mark after it
DigitsOnly(s) == Len(s) > 0 /\ \A i \in 1..Len(s) : IsDigit(s[i])

ValidPart(part) ==
    \/ DigitsOnly(part)
    \/ Len(part) > 1 /\ part[Len(part)] = "'" /\ DigitsOnly(SubSeq(part, 1, Len(part) - 1))

ValidPath(path) == \A i \in 1..Len(Split(path, "/")) : ValidPart(Split(path, "/")[i])

\* C22: a call of DerivePrivateKeyForPath with a path that has a part which is
\* empty, not a number or negative gives its caller the error MalformedPath,
\* and a call with a syntactically valid path returns a secret of the length
\* of a key and never aborts.
C22_MalformedPathIsAnError ==
    Over(hd) =>
        IF ValidPath(hd.path)
        THEN ResultOf(hd).err = "" /\ Len(ResultOf(hd).key) = KeyLen
        ELSE ResultOf(hd).err = "MalformedPath"

\* the number a part of a path denotes, as an integer of any size; 0 for a part
\* that denotes none
RECURSIVE NumberOf(_, _)
NumberOf(s, acc) ==
    IF Len(s) = 0 THEN acc ELSE NumberOf(Tail(s), acc * 10 + DigitVal(Head(s)))

IndexOfPart(part) ==
    LET num  == IF Len(part) > 0 /\ part[Len(part)] = "'"
                THEN SubSeq(part, 1, Len(part) - 1) ELSE part
        body == IF Len(num) > 0 /\ Head(num) = "-" THEN Tail(num) ELSE num
    IN  IF ~DigitsOnly(body) THEN 0
        ELSE IF body = num THEN NumberOf(body, 0) ELSE 0 - NumberOf(body, 0)

\* a part of the path has an index that is negative or above 2^31 - 1
IndexOutOfRange(path) ==
    \E i \in 1..Len(Split(path, "/")) :
        LET index == IndexOfPart(Split(path, "/")[i])
        IN  index < 0 \/ index >= HardenedBit

\* C23: a call of DerivePrivateKeyForPath with a path that has an index which
\* is negative or above 2^31 - 1 fails with InvalidPath and derives no key.
C23_IndexOutOfRangeIsInvalidPath ==
    (Over(hd) /\ IndexOutOfRange(hd.path)) =>
        ResultOf(hd).err = "InvalidPath" /\ ResultOf(hd).key = <<>>

ChildOf(node, index, prime) ==
    LET be32 == IF prime THEN FixedBytes((index % HardenedBit) + HardenedBit, IndexLen)
                ELSE FixedBytes(index, IndexLen)
        data == IF prime THEN <<0>> \o node.secret \o be32
                ELSE PubKeyOf(node.secret) \o be32
        I    == FixedBytes(Mix(Mix(Mix(1, node.chainCode), <<ByteBase>>), data), 2 * KeyLen)
    IN  [secret |-> FixedBytes((SetBytes(node.secret) + SetBytes(SubSeq(I, 1, KeyLen))) % CurveN,
                               KeyLen),
         chainCode |-> SubSeq(I, KeyLen + 1, 2 * KeyLen)]

\* the children along the parts of a path, from left to right
RECURSIVE FoldPath(_, _)
FoldPath(node, parts) ==
    IF Len(parts) = 0 THEN node
    ELSE FoldPath(ChildOf(node, ParsePart(Head(parts)).index, ParsePart(Head(parts)).prime),
                  Tail(parts))

\* the parts of the path the call has walked
Walked(w) == SubSeq(Split(w.path, "/"), 1, Len(Split(w.path, "/")) - Len(w.parts))

\* C29: after every turn of the loop of DerivePrivateKeyForPath the secret and
\* the chain code are those of the BIP32 children, taken from left to right
\* along the parts walked so far, of the master pair i64("Bitcoin seed", seed);
\* the key the call returns is the secret at the end of the path, and it is
\* the key the keybase derives from that seed and path.
C29_DerivePrivateKeyIsBIP32 ==
    (hd.kind = "path" /\ hd.phase \in {"loop", "returned"}) =>
        LET I == FixedBytes(Mix(Mix(Mix(1, masterSecret), <<ByteBase>>), hd.seed), 2 * KeyLen)
            master == [secret |-> SubSeq(I, 1, KeyLen),
                       chainCode |-> SubSeq(I, KeyLen + 1, 2 * KeyLen)]
            node == FoldPath(master, Walked(hd))
        IN  /\ hd.data = node.secret
            /\ hd.chainCode = node.chainCode
            /\ hd.phase = "returned" =>
                   /\ Walked(hd) = Split(hd.path, "/")
                   /\ deriveFromSeed(hd.seed, hd.path) = [err |-> "", key |-> node.secret]

\* a call has returned from a path with hardened steps and other steps
C29_Witness ==
    /\ hd.kind = "path" /\ hd.phase = "returned"
    /\ \E i, j \in 1..Len(Split(hd.path, "/")) :
           /\ ParsePart(Split(hd.path, "/")[i]).prime
           /\ ~ParsePart(Split(hd.path, "/")[j]).prime
    /\ hd.data # ComputeMastersFromSeed(hd.seed).secret

\* the integer a sequence of bytes denotes, the first byte being the highest
BigEndian(bs) ==
    LET RECURSIVE Value(_)
        Value(i) == IF i = 0 THEN 0 ELSE Value(i - 1) * ByteBase + bs[i]
    IN  Value(Len(bs))

\* C30: addScalars of two operands of the length of a key returns bytes of
\* exactly that length which denote, as a big-endian integer, the sum of the
\* operands modulo the order of the curve.
C30_AddScalarsFixedLength ==
    (hd.kind = "add" /\ hd.phase = "returned") =>
        /\ Len(hd.x) = KeyLen
        /\ \A i \in 1..KeyLen : hd.x[i] \in 0..(ByteBase - 1)
        /\ BigEndian(hd.x) = (BigEndian(hd.a) + BigEndian(hd.b)) % CurveN

\* the sum of the operands does not fit the length of a key, and the result
\* has a leading zero byte
C30_Witness ==
    /\ hd.kind = "add" /\ hd.phase = "returned"
    /\ BigEndian(hd.a) + BigEndian(hd.b) >= Pow(ByteBase, KeyLen)
    /\ hd.x[1] = 0 /\ BigEndian(hd.x) > 0

\* C27: Get, List, Export, ExportPubKey and Sign leave the store as it was,
\* whatever they return, and List after any of them returns the records List
\* returned before it, in the same order.
C27_ReadsPersistNothing ==
    \A name \in LookupNames, passphrase \in Passphrases, msg \in Msgs :
        \A r \in {Get(db, name), List(db), Export(db, name), ExportPubKey(db, name),
                  Sign(db, name, passphrase, msg)} :
            r.db = db /\ List(r.db).out = List(db).out

\* the store has two records, among them an encrypted one that Sign signs
\* with and Export exports
C27_Witness ==
    /\ Len(List(db).out) >= 2
    /\ \E name \in Names, passphrase \in Passphrases, msg \in Msgs :
           /\ Sign(db, name, passphrase, msg).err = ""
           /\ Export(db, name).err = "" /\ ExportPubKey(db, name).err = ""
           /\ Get(db, name).err = ""

\* C25: between two calls, every key of the store has in the durable store the
\* value the calls that returned left it with, so that a crash and a restart
\* lose nothing of what Create, Update, Delete and Import did.
C25_ReturnedWritesAreDurable ==
    \A key \in DOMAIN db \cup DOMAIN disk : dbGet(disk, key) = dbGet(db, key)

AllDone == \A t \in Threads : conc.th[t].pc = "done"

Succeeded(t, op) == conc.th[t].op = op /\ conc.th[t].err = ""

\* the calls of the threads gave what they give when t runs first, from the
\* store the first call found, and u after it, and left the store so
SerializedAs(t, u) ==
    LET first  == CallOf(conc.th[t], conc.base)
        second == CallOf(conc.th[u], first.db)
    IN  /\ conc.th[t].err = first.err
        /\ conc.th[u].err = second.err
        /\ db = second.db

\* the calls are over; a Delete that returned success left no record, and two
\* Updates that returned success left the record under the new passphrase of
\* the one of them that ran last
NoLostUpdate ==
    \E t, u \in Threads :
        /\ t # u /\ SerializedAs(t, u)
        /\ (Succeeded(t, "Delete") \/ Succeeded(u, "Delete")) => ~Present(db, ConcName)
        /\ (Succeeded(t, "Update") /\ Succeeded(u, "Update")) =>
               /\ Encrypted(db, ConcName)
               /\ CurrentPassphrase(db, ConcName) = conc.th[u].newpass

\* C26 as the spec has it: when two threads have called Update or Delete for
\* one name, their steps interleaved in any way, the calls gave what they give
\* one after the other in some order: a Delete that returned success left no
\* record, and two Updates left the record under the passphrase of the later.
C26_CallsAreSerialized == AllDone => NoLostUpdate

\* C26: when two threads have called Update or Delete for one name and neither
\* call began while the other was between its Get and its write, the calls
\* gave what they give one after the other: a Delete that returned success
\* left no record, and two Updates that returned success left the record
\* under the new passphrase of the one that wrote last.
C26_SerialCallsLoseNoUpdate ==
    (AllDone /\ ~conc.overlap) =>
        /\ NoLostUpdate
        /\ (\A t \in Threads : Succeeded(t, "Update")) =>
               CurrentPassphrase(db, ConcName) = conc.th[conc.last].newpass

\* two Updates with different new passphrases have returned success, one after
\* the other
C26_Witness ==
    /\ AllDone /\ ~conc.overlap
    /\ \A t \in Threads : Succeeded(t, "Update")
    /\ conc.th["t1"].newpass # conc.th["t2"].newpass
    /\ conc.th["t1"].pass # conc.th["t2"].pass

\* a part of a path that is hardened and denotes the number n
HardenedPartOf(part, n) ==
    /\ Len(part) > 1 /\ part[Len(part)] = "'"
    /\ DigitsOnly(SubSeq(part, 1, Len(part) - 1))
    /\ NumberOf(SubSeq(part, 1, Len(part) - 1), 0) = n

\* a part of a path that is not hardened and denotes the number n
PlainPartOf(part, n) == DigitsOnly(part) /\ NumberOf(part, 0) = n

\* C31: BIP44Params.String renders a parameter set as five parts separated by
\* "/": purpose, coinType and account, each with the prime mark, then the
\* change as 1 or 0 and the address index, both without it; the fundraiser
\* parameters (0, false, 0) give "44'/118'/0'/0/0" and NewParams(44, 0, 0,
\* false, 0) gives "44'/0'/0'/0/0".
C31_ParamsStringCanonical ==
    (hd.kind = "params" /\ hd.phase = "returned") =>
        LET parts == Split(hd.str, "/")
            p == hd.params
        IN  /\ Len(parts) = 5
            /\ HardenedPartOf(parts[1], p.purpose)
            /\ HardenedPartOf(parts[2], p.coinType)
            /\ HardenedPartOf(parts[3], p.account)
            /\ parts[4] = (IF p.change THEN <<"1">> ELSE <<"0">>)
            /\ PlainPartOf(parts[5], p.addressIdx)
            /\ p = NewFundraiserParams(0, FALSE, 0) =>
                   hd.str = <<"4", "4", "'", "/", "1", "1", "8", "'", "/", "0", "'", "/",
                              "0", "/", "0">>
            /\ p = NewParams(44, 0, 0, FALSE, 0) =>
                   hd.str = <<"4", "4", "'", "/", "0", "'", "/", "0", "'", "/", "0", "/", "0">>

\* String has rendered parameters with a change that is true and with an
\* account and an address index that are not 0
C31_Witness ==
    /\ hd.kind = "params" /\ hd.phase = "returned"
    /\ hd.params.change /\ hd.params.account > 1 /\ hd.params.addressIdx > 1
    /\ Len(hd.str) > 0


\* C32: a key NewPrivKeyLedgerSecp256k1 returned without error has the public
\* key of the device in CachedPubKey, a PubKey or Equals call on it makes no
\* round trip to the device and does not fail, and Sign on a key whose cached
\* public key is not the one the device reports returns an error.
C32_NewKeyCachesPubKey ==
    /\ ledger.made = "new" =>
           /\ ledger.pk.CachedPubKey # NilPubKey
           /\ ledger.ret.op \in {"PubKey", "Equals"} =>
                  ledger.ret.trips = 0 /\ ledger.ret.err # "panic"
    /\ \A msg \in Msgs :
           LET p == pubkeyLedgerSecp256k1(ledger.device, ledger.pk.Path)
           IN  (/\ ledger.made # "none"
                /\ ledger.pk.CachedPubKey # NilPubKey
                /\ p.err = ""
                /\ p.pub # ledger.pk.CachedPubKey) =>
                   LedgerSign(ledger.pk, msg, ledger.device).err # ""


\* C33: every record of the store is filed under its own name: for a name
\* with a record, the Name of the Info Get returns is that name.
C33_RecordFiledUnderOwnName ==
    \A name \in Names : Present(db, name) => InfoOf(db, name).Name = name


\* a call that returned an error left the store as it was and wrote nothing
NothingWritten(kb, r) ==
    r.err # "" => (r.db = kb /\ r.synced = {} /\ r.unsynced = {})

\* C34: a call of CreateMnemonic, CreateFundraiserKey, Derive, Import,
\* ImportPubKey, Update or Delete that returns an error leaves the whole store
\* as it was before the call, whatever the cause of the error: it has written
\* and deleted nothing.
C34_ErrorLeavesStore ==
    /\ \A name \in Names, passwd \in Passphrases :
           /\ \A language \in Languages, algo \in Algos, entropy \in Entropies :
                  NothingWritten(db, CreateMnemonic(db, name, language, passwd, algo, entropy))
           /\ \A mnemonic \in Mnemonics :
                  /\ NothingWritten(db, CreateFundraiserKey(db, name, mnemonic, passwd))
                  /\ \A params \in DeriveParams :
                         NothingWritten(db, Derive(db, name, mnemonic, passwd, params))
           /\ NothingWritten(db, Delete(db, name, passwd))
           /\ \A newpass \in Passphrases :
                  NothingWritten(db, Update(db, name, passwd, newpass))
    /\ \A name \in Names, armor \in ArmorInputs(db) :
           /\ NothingWritten(db, Import(db, name, armor))
           /\ NothingWritten(db, ImportPubKey(db, name, armor))

\* C34 witness: the store holds an encrypted record and lacks another; on it
\* CreateMnemonic fails on the algorithm and CreateFundraiserKey and Derive on
\* the sentence, Import and ImportPubKey fail on the name that is taken and
\* on a string that is no armor, Update and Delete fail on a wrong passphrase
\* and on the name without a record
C34_Witness ==
    \E name \in Names, free \in Names :
        /\ Encrypted(db, name) /\ ~Present(db, free)
        /\ \E passwd \in Passphrases, entropy \in Entropies :
               CreateMnemonic(db, free, "English", passwd, "ed25519", entropy).err # ""
        /\ \E mnemonic \in Mnemonics, passwd \in Passphrases, params \in DeriveParams :
               /\ CreateFundraiserKey(db, free, mnemonic, passwd).err # ""
               /\ Derive(db, free, mnemonic, passwd, params).err # ""
        /\ Import(db, name, Export(db, name).out[1]).err = "DuplicateName"
        /\ ImportPubKey(db, name, ExportPubKey(db, name).out[1]).err = "DuplicateName"
        /\ Import(db, free, [blockType |-> "", data |-> <<>>]).err # ""
        /\ ImportPubKey(db, free, [blockType |-> "", data |-> <<>>]).err # ""
        /\ \E passwd \in Passphrases :
               /\ passwd # CurrentPassphrase(db, name)
               /\ Update(db, name, passwd, passwd).err # ""
               /\ Delete(db, name, passwd).err # ""
               /\ Update(db, free, passwd, passwd).err # ""
               /\ Delete(db, free, passwd).err # ""


\* C35: every record with a PrivKeyArmor that is not empty is consistent: the
\* passphrase of the record decrypts the armor to a secret key whose public key
\* is the PubKey of the record, and so the signature Sign makes with that
\* passphrase verifies under the PubKey of the Info Get returns.
C35_RecordsSelfConsistent ==
    \A name \in Names :
        Encrypted(db, name) =>
            LET info == InfoOf(db, name)
                d == unarmorDecryptPrivKey(info.PrivKeyArmor, CurrentPassphrase(db, name))
            IN  /\ d.err = ""
                /\ PubKeyOf(d.priv) = info.PubKey
                /\ \A msg \in Msgs :
                       LET s == Sign(db, name, CurrentPassphrase(db, name), msg)
                       IN  s.err = "" /\ VerifyBytes(info.PubKey, msg, s.out[1])

====
